---- MODULE Spec2Model ----
(***************************************************************************)
(* Model of the WeChat -> Shopify bridge (server.js and its near-duplicate *)
(* variant part_000): two HTTP handlers, GET /api/stock and                *)
(* POST /api/create-order, each translating a request into calls of        *)
(* shopifyAdminGraphQL and mapping the upstream reply to an HTTP response. *)
(*                                                                         *)
(* JavaScript values are tagged records, so that truthiness, the nullish   *)
(* coalescing operator, property access on null/undefined (a TypeError)    *)
(* and JSON serialisation are computed as the runtime computes them.       *)
(***************************************************************************)
EXTENDS Integers, Sequences, FiniteSets, TLC

\* ---------------------------------------------------------------- bounds
MaxInventory == 2      \* upstream totalInventory ranges over -1..MaxInventory
MaxQuantity == 2       \* requested quantity ranges over -1..MaxQuantity
MaxErrors == 1         \* length of a top-level GraphQL errors list
MaxUserErrors == 2     \* length of a userErrors list
MaxEdges == 1          \* length of product.variants.edges

\* ------------------------------------------------------ JavaScript values
Undef == [t |-> "undefined"]
Null == [t |-> "null"]
Str(s) == [t |-> "string", v |-> s]
Num(n) == [t |-> "number", v |-> n]
Bool(b) == [t |-> "boolean", v |-> b]
Arr(s) == [t |-> "array", v |-> s]
Obj(f) == [t |-> "object", f |-> f]
NonJson == [t |-> "text"]

Nullish(x) == x.t \in {"undefined", "null"}

\* ToBoolean: undefined, null, "", 0 and false are falsy; objects and arrays
\* (the empty array included) are truthy.
Truthy(x) ==
  CASE x.t = "undefined" -> FALSE
    [] x.t = "null" -> FALSE
    [] x.t = "string" -> x.v # ""
    [] x.t = "number" -> x.v # 0
    [] x.t = "boolean" -> x.v
    [] OTHER -> TRUE

\* a || b
Or(a, b) == IF Truthy(a) THEN a ELSE b

\* a ?? b
Coalesce(a, b) == IF Nullish(a) THEN b ELSE a

\* o.k for a non-nullish o (callers test Nullish(o) first: that is the TypeError)
Get(o, k) ==
  IF o.t = "object" /\ k \in DOMAIN o.f THEN o.f[k] ELSE Undef

\* a.length
Length(a) == IF a.t = "array" THEN Num(Len(a.v)) ELSE Undef

\* a[0]
First(a) == IF a.t = "array" /\ Len(a.v) > 0 THEN a.v[1] ELSE Undef

\* a > 0
GtZero(a) == a.t = "number" /\ a.v > 0

\* JSON.stringify followed by the peer's parse: members whose value is
\* undefined are dropped, undefined array elements become null.
RECURSIVE Json(_)
Json(x) ==
  CASE x.t = "object" ->
         Obj([k \in {j \in DOMAIN x.f : x.f[j].t # "undefined"} |-> Json(x.f[k])])
    [] x.t = "array" ->
         Arr([i \in 1..Len(x.v) |-> IF x.v[i].t = "undefined" THEN Null ELSE Json(x.v[i])])
    [] OTHER -> x

SeqsUpTo(S, n) == UNION {[1..k -> S] : k \in 0..n}

\* ------------------------------------------------------- handler outcomes
Throw(m) == [k |-> "throw", msg |-> m]
Return(d) == [k |-> "return", data |-> d]
Respond(s, b) == [k |-> "respond", status |-> s, body |-> Json(b)]
Call(op, vars, next) == [k |-> "call", op |-> op, variables |-> vars, next |-> next]

VARIABLES
  build,        \* which source variant runs: "server.js" or "part_000"
  ADMIN_TOKEN,  \* configuration value read at process start
  listening,    \* app.listen has bound the port
  pc,           \* position of the request handler
  endpoint,     \* "none", "stock" or "create-order"
  req,          \* req.query (stock) or req.body (create-order)
  gqlCalls,     \* invocations of shopifyAdminGraphQL made for the request
  fetches,      \* outbound HTTP requests sent for the request
  inflight,     \* outbound HTTP requests not yet settled
  replies,      \* what the transport delivered for each fetch
  responses,    \* HTTP responses written for the request
  errlog,       \* errors logged by the handlers' catch blocks
  unhandled     \* an exception escaped the handler

vars == <<build, ADMIN_TOKEN, listening, pc, endpoint, req, gqlCalls, fetches,
          inflight, replies, responses, errlog, unhandled>>


\* ------------------------------------------------------------ configuration
Builds == {"server.js", "part_000"}

\* process.env.SHOPIFY_ADMIN_TOKEN: unset, set to "", or set to a token
EnvTokens == {Undef, Str(""), Str("shpat_test")}

\* const ADMIN_TOKEN = process.env.SHOPIFY_ADMIN_TOKEN          (server.js)
\* const ADMIN_TOKEN = process.env.SHOPIFY_ADMIN_TOKEN || ""    (part_000)
ReadAdminToken(b, env) == IF b = "part_000" THEN Or(env, Str("")) ELSE env

\* -------------------------------------------------------- request inputs
ProductIds == {Undef, Str(""), Str("gid://shopify/Product/1")}
Quantities ==
  {Undef, Str("abc")} \cup {Num(n) : n \in -1..MaxQuantity}
\* the optional members: each is once absent and once given
Optionals ==
  {[email |-> Undef, note |-> Str("gift")],
   [email |-> Str("buyer@example.cn"), note |-> Undef]}

StockQueries == {Json(Obj([productId |-> p])) : p \in ProductIds}

\* req.body: undefined when no JSON body was parsed, otherwise an object
OrderBodies ==
  {Undef} \cup
  {Json(Obj([productId |-> p, quantity |-> q, email |-> o.email, note |-> o.note])) :
     p \in ProductIds, q \in Quantities, o \in Optionals}

\* ---------------------------------------------------- upstream behaviour
Statuses == {200, 503}

ErrorItems == {Obj([message |-> Str("Throttled")]), Obj(<<>>)}
ErrorsFields == {Undef, Null} \cup {Arr(s) : s \in SeqsUpTo(ErrorItems, MaxErrors)}

\* data of the getStock query
StockProducts ==
  {Null, Obj([id |-> Str("gid://shopify/Product/1")])} \cup
  {Obj([id |-> Str("gid://shopify/Product/1"), totalInventory |-> i]) :
     i \in {Null} \cup {Num(n) : n \in -1..MaxInventory}}
StockDatas == {Undef, Null} \cup {Obj([product |-> p]) : p \in StockProducts}

\* data of the getVariant query
VariantNodes == {Null, Obj([id |-> Str("gid://shopify/ProductVariant/11")])}
VariantEdges == {Obj([node |-> n]) : n \in VariantNodes}
VariantConnections ==
  {Null} \cup {Obj([edges |-> Arr(s)]) : s \in SeqsUpTo(VariantEdges, MaxEdges)}
VariantProducts ==
  {Null} \cup
  {Obj([id |-> Str("gid://shopify/Product/1"), title |-> Str("Deck"), variants |-> v]) :
     v \in VariantConnections}
VariantDatas == {Undef, Null} \cup {Obj([product |-> p]) : p \in VariantProducts}

\* data of the createOrder mutation
Orders ==
  {Undef, Null,
   Obj([id |-> Str("gid://shopify/Order/7"), name |-> Str("#1007"),
        email |-> Str("buyer@example.cn"),
        totalPriceSet |-> Obj([shopMoney |->
           Obj([amount |-> Str("19.90"), currencyCode |-> Str("CNY")])])])}
UserErrorItems ==
  {Obj([field |-> Arr(<<Str("order"), Str("lineItems")>>), message |-> Str("Quantity is invalid")]),
   Obj([field |-> Null, message |-> Str("Variant is unavailable")])}
UserErrorsFields ==
  {Undef, Null} \cup {Arr(s) : s \in SeqsUpTo(UserErrorItems, MaxUserErrors)}
OrderCreates ==
  {Null} \cup {Json(Obj([order |-> o, userErrors |-> u])) : o \in Orders, u \in UserErrorsFields}
MutationDatas == {Undef, Null} \cup {Obj([orderCreate |-> r]) : r \in OrderCreates}

\* what the transport can deliver for one fetch: a rejection, or an HTTP
\* response whose body is not JSON, is JSON null, or is a JSON object with
\* optional errors and data members
Replies(D) ==
  {[net |-> "error"]} \cup
  {[net |-> "ok", status |-> s, body |-> b] :
     s \in Statuses,
     b \in {NonJson, Null} \cup
           {Json(Obj([errors |-> e, data |-> d])) : e \in ErrorsFields, d \in D}}

StockReplies == Replies(StockDatas)
VariantReplies == Replies(VariantDatas)
MutationReplies == Replies(MutationDatas)

\* ------------------------------------------------------ shopifyAdminGraphQL
\* variant of MissingToken: tests ADMIN_TOKEN === undefined, so an empty
\* token passes
MissingToken_UndefinedOnly(token) == token.t = "undefined"

\* if (!ADMIN_TOKEN) throw ...  -- checked before anything is sent
MissingToken(token) == ~Truthy(token)

\* res.ok
ResOk(res) == res.status \in 200..299

\* json.errors[0]?.message || "Shopify GraphQL error"
FirstErrorMessage(errors) ==
  LET e == First(errors)
      m == IF Nullish(e) THEN Undef ELSE Get(e, "message")
  IN Or(m, Str("Shopify GraphQL error")).v

\* variant of shopifyAdminGraphQL: the errors list is an error only when the
\* reply carries no data
shopifyAdminGraphQL_ErrorsOnlyWithoutData(res) ==
  IF res.net = "error" THEN Throw("FetchError")
  ELSE IF res.body = NonJson THEN Throw("invalid json response body")
  ELSE IF ~ResOk(res) THEN Throw("Shopify HTTP " \o ToString(res.status))
  ELSE IF Nullish(res.body) THEN Throw("TypeError")
  ELSE IF Truthy(Get(res.body, "errors")) /\ ~Truthy(Get(res.body, "data"))
       THEN Throw(FirstErrorMessage(Get(res.body, "errors")))
  ELSE Return(Get(res.body, "data"))

\* the part of shopifyAdminGraphQL after the fetch settled
shopifyAdminGraphQL(res) ==
  IF res.net = "error" THEN Throw("FetchError")
  ELSE IF res.body = NonJson THEN Throw("invalid json response body")
  ELSE IF ~ResOk(res) THEN Throw("Shopify HTTP " \o ToString(res.status))
  ELSE IF Nullish(res.body) THEN Throw("TypeError")
  ELSE IF Truthy(Get(res.body, "errors"))
       THEN Throw(FirstErrorMessage(Get(res.body, "errors")))
  ELSE Return(Get(res.body, "data"))

\* -------------------------------------------------------- GET /api/stock
\* from the start of the handler to the first await
StockEntry(query) ==
  LET productId == Get(query, "productId") IN
  IF ~Truthy(productId)
  THEN Respond(400, Obj([error |-> Str("Missing productId")]))
  ELSE Call("getStock", Obj([id |-> productId]), "await_stock")

\* variant of StockAfter: available is computed as qty !== 0
StockAfter_AvailableNonZero(query, gq) ==
  LET productId == Get(query, "productId") IN
  IF gq.k = "throw" THEN gq
  ELSE IF Nullish(gq.data) THEN Throw("TypeError")
  ELSE LET product == Get(gq.data, "product") IN
    IF ~Truthy(product)
    THEN Respond(404, Obj([error |-> Str("Product not found")]))
    ELSE LET qty == Coalesce(Get(product, "totalInventory"), Num(0)) IN
      Respond(200, Obj([productId |-> productId, quantity |-> qty,
                        available |-> Bool(qty # Num(0))]))

\* from the settled call to the response
StockAfter(query, gq) ==
  LET productId == Get(query, "productId") IN
  IF gq.k = "throw" THEN gq
  ELSE IF Nullish(gq.data) THEN Throw("TypeError")
  ELSE LET product == Get(gq.data, "product") IN
    IF ~Truthy(product)
    THEN Respond(404, Obj([error |-> Str("Product not found")]))
    ELSE LET qty == Coalesce(Get(product, "totalInventory"), Num(0)) IN
      Respond(200, Obj([productId |-> productId, quantity |-> qty,
                        available |-> Bool(GtZero(qty))]))

\* catch (err) { ...; res.status(500).json({ error: "Internal error" }) }
StockCatch(err) == Respond(500, Obj([error |-> Str("Internal error")]))

\* ------------------------------------------------- POST /api/create-order
\* const { productId, quantity, email, note } = req.body || {}
Destructure(body) == Or(body, Obj(<<>>))

\* variant of OrderEntry: only productId is validated
OrderEntry_ProductIdOnly(body) ==
  LET b == Destructure(body)
      productId == Get(b, "productId")
  IN IF ~Truthy(productId)
     THEN Respond(400, Obj([error |-> Str("Missing productId or quantity")]))
     ELSE Call("getVariant", Obj([id |-> productId]), "await_variant")

OrderEntry(body) ==
  LET b == Destructure(body)
      productId == Get(b, "productId")
      quantity == Get(b, "quantity")
  IN IF ~Truthy(productId) \/ ~Truthy(quantity)
     THEN Respond(400, Obj([error |-> Str("Missing productId or quantity")]))
     ELSE Call("getVariant", Obj([id |-> productId]), "await_variant")

OrderInput(body, variantId) ==
  LET b == Destructure(body) IN
  Obj([email |-> Or(Get(b, "email"), Str("no-email@example.com")),
       lineItems |-> Arr(<<Obj([quantity |-> Get(b, "quantity"),
                               variantId |-> variantId])>>),
       tags |-> Arr(<<Str("WeChat Mini Program")>>),
       note |-> Or(Get(b, "note"), Str("Order from WeChat Mini Program")),
       financialStatus |-> Str("PAID")])

\* { order: orderInput } in server.js, { input: orderInput } in part_000
MutationVariables(b, orderInput) ==
  IF b = "part_000" THEN Obj([input |-> orderInput]) ELSE Obj([order |-> orderInput])

\* variant of OrderAfterVariant: no test of edges.length, the variant id is
\* read as edges[0]?.node?.id
OrderAfterVariant_OptionalChaining(b, body, gq) ==
  IF gq.k = "throw" THEN gq
  ELSE IF Nullish(gq.data) THEN Throw("TypeError")
  ELSE LET product == Get(gq.data, "product") IN
    IF ~Truthy(product)
    THEN Respond(404, Obj([error |-> Str("Product or variant not found")]))
    ELSE LET variants == Get(product, "variants") IN
      IF Nullish(variants) THEN Throw("TypeError")
      ELSE LET edges == Get(variants, "edges") IN
        IF Nullish(edges) THEN Throw("TypeError")
        ELSE LET node == Get(First(edges), "node") IN
          Call("createOrder",
               MutationVariables(b, OrderInput(body, Get(node, "id"))),
               "await_mutation")

\* from the settled variant query to the mutation call or the response
OrderAfterVariant(b, body, gq) ==
  IF gq.k = "throw" THEN gq
  ELSE IF Nullish(gq.data) THEN Throw("TypeError")
  ELSE LET product == Get(gq.data, "product") IN
    IF ~Truthy(product)
    THEN Respond(404, Obj([error |-> Str("Product or variant not found")]))
    ELSE LET variants == Get(product, "variants") IN
      IF Nullish(variants) THEN Throw("TypeError")
      ELSE LET edges == Get(variants, "edges") IN
        IF Nullish(edges) THEN Throw("TypeError")
        ELSE IF ~Truthy(Length(edges))
        THEN Respond(404, Obj([error |-> Str("Product or variant not found")]))
        ELSE LET node == Get(First(edges), "node") IN
          IF Nullish(First(edges)) \/ Nullish(node) THEN Throw("TypeError")
          ELSE Call("createOrder",
                    MutationVariables(b, OrderInput(body, Get(node, "id"))),
                    "await_mutation")

\* variant of OrderAfterMutation: a returned order wins over userErrors
OrderAfterMutation_OrderFirst(gq) ==
  IF gq.k = "throw" THEN gq
  ELSE IF Nullish(gq.data) THEN Throw("TypeError")
  ELSE LET result == Get(gq.data, "orderCreate") IN
    IF Nullish(result) THEN Throw("TypeError")
    ELSE LET userErrors == Get(result, "userErrors") IN
      IF ~Truthy(Get(result, "order")) /\ Truthy(userErrors) /\ Truthy(Length(userErrors))
      THEN Respond(400, Obj([error |-> Str("Shopify order error"),
                             details |-> userErrors]))
      ELSE Respond(200, Obj([success |-> Bool(TRUE),
                             order |-> Get(result, "order")]))

\* variant of OrderAfterMutation: a failed mutation is sent again
OrderAfterMutation_Retry(gq) ==
  IF gq.k = "throw"
  THEN Call("createOrder", Obj(<<>>), "await_mutation")
  ELSE IF Nullish(gq.data) THEN Throw("TypeError")
  ELSE LET result == Get(gq.data, "orderCreate") IN
    IF Nullish(result) THEN Throw("TypeError")
    ELSE LET userErrors == Get(result, "userErrors") IN
      IF Truthy(userErrors) /\ Truthy(Length(userErrors))
      THEN Respond(400, Obj([error |-> Str("Shopify order error"),
                             details |-> userErrors]))
      ELSE Respond(200, Obj([success |-> Bool(TRUE),
                             order |-> Get(result, "order")]))

\* from the settled mutation to the response
OrderAfterMutation(gq) ==
  IF gq.k = "throw" THEN gq
  ELSE IF Nullish(gq.data) THEN Throw("TypeError")
  ELSE LET result == Get(gq.data, "orderCreate") IN
    IF Nullish(result) THEN Throw("TypeError")
    ELSE LET userErrors == Get(result, "userErrors") IN
      IF Truthy(userErrors) /\ Truthy(Length(userErrors))
      THEN Respond(400, Obj([error |-> Str("Shopify order error"),
                             details |-> userErrors]))
      ELSE Respond(200, Obj([success |-> Bool(TRUE),
                             order |-> Get(result, "order")]))

\* variant of OrderCatch: the catch block logs and rethrows
OrderCatch_Rethrow(err) == Throw(err)

\* catch (err) { ...; res.status(500).json({ error: "Internal error" }) }
OrderCatch(err) == Respond(500, Obj([error |-> Str("Internal error")]))

\* ------------------------------------------------------------ the server
\* the try { ... } catch of the endpoint's handler
Catch(ep, err) == IF ep = "stock" THEN StockCatch(err) ELSE OrderCatch(err)

\* One synchronous run of a handler segment inside its try block.  A "call"
\* invokes shopifyAdminGraphQL, which throws before sending anything when the
\* token is missing and otherwise sends one HTTP request and awaits it.  A
\* throw is handed to the catch block.  settled is the number of awaited
\* requests that completed to start this run.
Run(ep, step, settled) ==
  LET invoked == step.k = "call"
      tried == IF invoked /\ MissingToken(ADMIN_TOKEN)
               THEN Throw("Missing SHOPIFY_ADMIN_TOKEN (Admin API token)")
               ELSE step
      final == IF tried.k = "throw" THEN Catch(ep, tried.msg) ELSE tried
  IN /\ gqlCalls' = IF invoked THEN Append(gqlCalls, step.op) ELSE gqlCalls
     /\ errlog' = IF tried.k = "throw" THEN Append(errlog, tried.msg) ELSE errlog
     /\ CASE final.k = "call" ->
               /\ fetches' = Append(fetches, [op |-> final.op,
                                              variables |-> Json(final.variables),
                                              token |-> ADMIN_TOKEN])
               /\ inflight' = inflight - settled + 1
               /\ pc' = final.next
               /\ UNCHANGED <<responses, unhandled>>
          [] final.k = "respond" ->
               /\ responses' = Append(responses, [status |-> final.status,
                                                  body |-> final.body])
               /\ inflight' = inflight - settled
               /\ pc' = "done"
               /\ UNCHANGED <<fetches, unhandled>>
          [] OTHER ->
               \* the exception left the handler: nothing answers the request
               /\ unhandled' = TRUE
               /\ inflight' = inflight - settled
               /\ pc' = "failed"
               /\ UNCHANGED <<fetches, responses>>

Init ==
  /\ build \in Builds
  /\ \E env \in EnvTokens : ADMIN_TOKEN = ReadAdminToken(build, env)
  /\ listening = FALSE
  /\ pc = "boot"
  /\ endpoint = "none"
  /\ req = Undef
  /\ gqlCalls = <<>>
  /\ fetches = <<>>
  /\ inflight = 0
  /\ replies = <<>>
  /\ responses = <<>>
  /\ errlog = <<>>
  /\ unhandled = FALSE

\* app.listen(PORT, ...): unconditional, the token is not looked at
Listen ==
  /\ pc = "boot"
  /\ listening' = TRUE
  /\ pc' = "idle"
  /\ UNCHANGED <<build, ADMIN_TOKEN, endpoint, req, gqlCalls, fetches, inflight,
                 replies, responses, errlog, unhandled>>

\* GET /api/stock?productId=...
GetStock(query) ==
  /\ pc = "idle"
  /\ listening
  /\ endpoint' = "stock"
  /\ req' = query
  /\ Run("stock", StockEntry(query), 0)
  /\ UNCHANGED <<build, ADMIN_TOKEN, listening, replies>>

\* the getStock call settles and the handler resumes
StockReply(r) ==
  /\ pc = "await_stock"
  /\ replies' = Append(replies, r)
  /\ Run("stock", StockAfter(req, shopifyAdminGraphQL(r)), 1)
  /\ UNCHANGED <<build, ADMIN_TOKEN, listening, endpoint, req>>

\* POST /api/create-order
CreateOrder(body) ==
  /\ pc = "idle"
  /\ listening
  /\ endpoint' = "create-order"
  /\ req' = body
  /\ Run("create-order", OrderEntry(body), 0)
  /\ UNCHANGED <<build, ADMIN_TOKEN, listening, replies>>

\* the getVariant call settles and the handler resumes
VariantReply(r) ==
  /\ pc = "await_variant"
  /\ replies' = Append(replies, r)
  /\ Run("create-order", OrderAfterVariant(build, req, shopifyAdminGraphQL(r)), 1)
  /\ UNCHANGED <<build, ADMIN_TOKEN, listening, endpoint, req>>

\* the createOrder call settles and the handler resumes
MutationReply(r) ==
  /\ pc = "await_mutation"
  /\ replies' = Append(replies, r)
  /\ Run("create-order", OrderAfterMutation(shopifyAdminGraphQL(r)), 1)
  /\ UNCHANGED <<build, ADMIN_TOKEN, listening, endpoint, req>>

\* the request is over; the server holds no state of it and takes the next
NextRequest ==
  /\ pc = "done"
  /\ pc' = "idle"
  /\ endpoint' = "none"
  /\ req' = Undef
  /\ gqlCalls' = <<>>
  /\ fetches' = <<>>
  /\ replies' = <<>>
  /\ responses' = <<>>
  /\ errlog' = <<>>
  /\ UNCHANGED <<build, ADMIN_TOKEN, listening, inflight, unhandled>>

StockSettles == pc = "await_stock" /\ \E r \in StockReplies : StockReply(r)
VariantSettles == pc = "await_variant" /\ \E r \in VariantReplies : VariantReply(r)
MutationSettles == pc = "await_mutation" /\ \E r \in MutationReplies : MutationReply(r)

Next ==
  \/ Listen
  \/ \E q \in StockQueries : GetStock(q)
  \/ StockSettles
  \/ \E b \in OrderBodies : CreateOrder(b)
  \/ VariantSettles
  \/ MutationSettles
  \/ NextRequest

Spec == Init /\ [][Next]_vars

\* every fetch the server awaits is eventually resolved or rejected by the
\* transport
FairSpec ==
  Spec /\ WF_vars(StockSettles) /\ WF_vars(VariantSettles) /\ WF_vars(MutationSettles)

\* ------------------------------------------------- vocabulary of the claims
Awaiting == pc \in {"await_stock", "await_variant", "await_mutation"}
Answered == pc = "done" /\ Len(responses) = 1
Status == responses[1].status
Body == responses[1].body
InternalError == [status |-> 500, body |-> Obj([error |-> Str("Internal error")])]

Count(seq, op) == Cardinality({i \in DOMAIN seq : seq[i] = op})
FetchOps == [i \in DOMAIN fetches |-> fetches[i].op]
IsPrefix(a, b) == Len(a) <= Len(b) /\ \A i \in DOMAIN a : a[i] = b[i]

\* the three upstream failures: transport, HTTP status, GraphQL errors list
TransportFailure(r) == r.net = "error"
NonSuccessStatus(r) == r.net = "ok" /\ (r.status < 200 \/ r.status > 299)
HasErrorsList(r) ==
  r.net = "ok" /\ r.body.t = "object" /\ Get(r.body, "errors").t = "array"
UpstreamFailed(r) == TransportFailure(r) \/ NonSuccessStatus(r) \/ HasErrorsList(r)

\* a 2xx JSON reply without errors list that carries a data object
DataOf(r) == Get(r.body, "data")
UpstreamSucceeded(r) ==
  /\ r.net = "ok"
  /\ ~NonSuccessStatus(r)
  /\ r.body.t = "object"
  /\ ~HasErrorsList(r)
  /\ DataOf(r).t = "object"

ReportedProduct(r) == Get(DataOf(r), "product")
ReportedEdges(r) == Get(Get(ReportedProduct(r), "variants"), "edges")
HasVariantEdge(r) ==
  /\ UpstreamSucceeded(r)
  /\ ReportedProduct(r).t = "object"
  /\ ReportedEdges(r).t = "array"
  /\ Len(ReportedEdges(r).v) >= 1
ZeroVariants(r) ==
  /\ UpstreamSucceeded(r)
  /\ ReportedProduct(r).t = "object"
  /\ ReportedEdges(r).t = "array"
  /\ Len(ReportedEdges(r).v) = 0
NoProduct(r) == UpstreamSucceeded(r) /\ Nullish(ReportedProduct(r))

ReportedOrderCreate(r) == Get(DataOf(r), "orderCreate")
ReportedUserErrors(r) == Get(ReportedOrderCreate(r), "userErrors")
ReportedOrder(r) == Get(ReportedOrderCreate(r), "order")
HasUserErrors(r) ==
  /\ UpstreamSucceeded(r)
  /\ ReportedUserErrors(r).t = "array"
  /\ Len(ReportedUserErrors(r).v) > 0
ReturnedOrderWithoutUserErrors(r) ==
  /\ UpstreamSucceeded(r)
  /\ ReportedOrderCreate(r).t = "object"
  /\ ReportedOrder(r).t = "object"
  /\ ~HasUserErrors(r)

ReqProductId == Get(req, "productId")
ReqQuantity == Get(req, "quantity")
PositiveInteger(q) == q.t = "number" /\ q.v > 0

\* ------------------------------------------------------------------- C1
\* C1: in CreateOrder the mutation is sent only as the second call, after the
\* variant query of the same request returned a product with at least one
\* variant edge; when the variant query reports no product or zero variants
\* the request is answered 404 and no mutation call was made.
C1_MutationOnlyAfterVariant ==
  endpoint = "create-order" =>
    /\ \A i \in DOMAIN fetches :
         fetches[i].op = "createOrder" =>
           /\ i = 2
           /\ fetches[1].op = "getVariant"
           /\ Len(replies) >= 1
           /\ HasVariantEdge(replies[1])
    /\ (Len(replies) >= 1 /\ (NoProduct(replies[1]) \/ ZeroVariants(replies[1]))) =>
         /\ Answered
         /\ Status = 404
         /\ Count(gqlCalls, "createOrder") = 0
         /\ Count(FetchOps, "createOrder") = 0

C1_Witness ==
  /\ endpoint = "create-order"
  /\ Len(replies) = 1
  /\ ZeroVariants(replies[1])
  /\ Answered
  /\ Status = 404
  /\ FetchOps = <<"getVariant">>

\* ------------------------------------------------------------------- C2
\* C2: a request with a missing required input (GetStock with no or empty
\* productId, CreateOrder with productId or quantity absent) is answered 400
\* and never reaches shopifyAdminGraphQL, whatever the token configuration.
MissingInput ==
  \/ endpoint = "stock" /\ ReqProductId \in {Undef, Str("")}
  \/ endpoint = "create-order" /\ (ReqProductId = Undef \/ ReqQuantity = Undef)

C2_MissingInputNoUpstream ==
  MissingInput =>
    /\ Answered
    /\ Status = 400
    /\ gqlCalls = <<>>
    /\ fetches = <<>>
    /\ replies = <<>>

C2_Witness ==
  /\ endpoint = "create-order"
  /\ Truthy(ReqProductId)
  /\ ReqQuantity = Undef
  /\ Truthy(ADMIN_TOKEN)
  /\ Answered
  /\ Status = 400
  /\ gqlCalls = <<>>

\* ------------------------------------------------------------------- C3
\* C3: every CreateOrder request whose quantity is present but is not a
\* positive integer is answered 400 without any upstream call.
C3_MalformedQuantityRejected ==
  (endpoint = "create-order" /\ ReqQuantity # Undef /\ ~PositiveInteger(ReqQuantity)) =>
    /\ Answered
    /\ Status = 400
    /\ gqlCalls = <<>>
    /\ fetches = <<>>

\* ------------------------------------------------------------------- C4
\* C4: when an upstream call of a request ends in a transport failure, a
\* non-2xx status or a reply with a top-level errors list, the request is
\* answered 500 with exactly {error: "Internal error"}, whatever the error
\* content and whatever data the reply also carries.
C4_UpstreamFailureIsGeneric500 ==
  \A i \in DOMAIN replies :
    UpstreamFailed(replies[i]) =>
      /\ pc = "done"
      /\ responses = <<InternalError>>

C4_Witness ==
  /\ endpoint = "create-order"
  /\ Len(replies) = 2
  /\ HasErrorsList(replies[2])
  /\ ~NonSuccessStatus(replies[2])
  /\ ReportedOrder(replies[2]).t = "object"
  /\ errlog = <<"Throttled">>
  /\ responses = <<InternalError>>

\* ------------------------------------------------------------------- C5
\* C5: every request ends with exactly one response whose status is 200, 400,
\* 404 or 500, for every upstream behaviour, malformed successful replies
\* included; no exception leaves the handler and no request stays unanswered.
C5_Safe ==
  /\ Len(responses) <= 1
  /\ \A i \in DOMAIN responses : responses[i].status \in {200, 400, 404, 500}
  /\ ~unhandled
  /\ pc # "failed"
  /\ pc = "done" => Len(responses) = 1
  /\ Awaiting => responses = <<>> /\ inflight = 1

PassesValidation ==
  \/ endpoint = "stock" /\ Truthy(ReqProductId)
  \/ endpoint = "create-order" /\ Truthy(ReqProductId) /\ Truthy(ReqQuantity)

C6_MissingTokenFailsPerRequest ==
  ~Truthy(ADMIN_TOKEN) =>
    /\ pc = "boot" => ENABLED Listen
    /\ pc # "boot" => listening
    /\ fetches = <<>>
    /\ inflight = 0
    /\ endpoint # "none" =>
         /\ pc = "done"
         /\ IF PassesValidation
            THEN responses = <<InternalError>> /\ Len(gqlCalls) = 1
            ELSE Len(responses) = 1 /\ Status = 400 /\ gqlCalls = <<>>

C6_Witness ==
  /\ ~Truthy(ADMIN_TOKEN)
  /\ listening
  /\ endpoint = "create-order"
  /\ PassesValidation
  /\ gqlCalls = <<"getVariant">>
  /\ fetches = <<>>
  /\ responses = <<InternalError>>

\* ------------------------------------------------------------------- C7
\* C7: when the mutation's reply is a transport-level success whose
\* userErrors list is non-empty, CreateOrder is answered 400 with details
\* equal to that list, element for element, even if the reply also contains
\* an order; it is never answered 200.
C7_UserErrorsVerbatim400 ==
  (endpoint = "create-order" /\ Len(replies) = 2 /\ HasUserErrors(replies[2])) =>
    /\ pc = "done"
    /\ responses =
         <<[status |-> 400,
            body |-> Obj([error |-> Str("Shopify order error"),
                          details |-> ReportedUserErrors(replies[2])])]>>

C7_Witness ==
  /\ endpoint = "create-order"
  /\ Len(replies) = 2
  /\ HasUserErrors(replies[2])
  /\ Len(ReportedUserErrors(replies[2]).v) = 2
  /\ ReportedUserErrors(replies[2]).v[1] # ReportedUserErrors(replies[2]).v[2]
  /\ ReportedOrder(replies[2]).t = "object"
  /\ Answered
  /\ Status = 400
  /\ Get(Body, "details") = ReportedUserErrors(replies[2])

\* ------------------------------------------------------------------- C8
\* C8: CreateOrder is answered 200 with success:true exactly when the variant
\* query returned a product with a variant and the mutation returned an order
\* with no userErrors; the order of the response is then upstream's order, so
\* every 200 response carries a created order.
C8_SuccessIffOrderCreated ==
  (endpoint = "create-order" /\ pc = "done") =>
    /\ (Status = 200) <=>
         /\ Len(replies) = 2
         /\ HasVariantEdge(replies[1])
         /\ ReturnedOrderWithoutUserErrors(replies[2])
    /\ Status = 200 =>
         /\ Get(Body, "success") = Bool(TRUE)
         /\ Get(Body, "order").t = "object"
         /\ Get(Body, "order") = ReportedOrder(replies[2])

\* ------------------------------------------------------------------- C9
\* C9 (as stated): for a GetStock request with a non-empty productId whose
\* upstream call succeeds, no product gives 404; otherwise the answer is 200
\* {productId, quantity, available} with the request's productId, quantity the
\* count reported by upstream (0 when missing or null), quantity an integer
\* >= 0, and available true iff quantity > 0.
ReportedInventory(r) == Coalesce(Get(ReportedProduct(r), "totalInventory"), Num(0))

StockCase ==
  /\ endpoint = "stock"
  /\ Truthy(ReqProductId)
  /\ Len(replies) = 1
  /\ UpstreamSucceeded(replies[1])

C9_StockQuantityNonNegative ==
  StockCase =>
    /\ Answered
    /\ IF Nullish(ReportedProduct(replies[1]))
       THEN Status = 404
       ELSE /\ Status = 200
            /\ DOMAIN Body.f = {"productId", "quantity", "available"}
            /\ Get(Body, "productId") = ReqProductId
            /\ Get(Body, "quantity") = ReportedInventory(replies[1])
            /\ Get(Body, "quantity").t = "number"
            /\ Get(Body, "quantity").v >= 0
            /\ Get(Body, "available") = Bool(Get(Body, "quantity").v > 0)

\* C9 (amended): as above, but quantity is the reported count as it is: it is
\* >= 0 whenever the reported count is, and a negative reported count is
\* passed on unchanged with available false.
C9_StockQuantityAsReported ==
  StockCase =>
    /\ Answered
    /\ IF Nullish(ReportedProduct(replies[1]))
       THEN Status = 404
       ELSE /\ Status = 200
            /\ DOMAIN Body.f = {"productId", "quantity", "available"}
            /\ Get(Body, "productId") = ReqProductId
            /\ Get(Body, "quantity") = ReportedInventory(replies[1])
            /\ Get(Body, "quantity").t = "number"
            /\ ReportedInventory(replies[1]).v >= 0 => Get(Body, "quantity").v >= 0
            /\ Get(Body, "available") = Bool(Get(Body, "quantity").v > 0)

C9_Witness ==
  /\ StockCase
  /\ ReportedProduct(replies[1]).t = "object"
  /\ Get(ReportedProduct(replies[1]), "totalInventory") = Num(-1)
  /\ Answered
  /\ Status = 200
  /\ Get(Body, "quantity") = Num(-1)
  /\ Get(Body, "available") = Bool(FALSE)

\* ------------------------------------------------------------------ C10
\* C10: a GetStock request issues at most one upstream call and a CreateOrder
\* request at most two (the variant query, then at most one mutation), one at
\* a time; nothing is sent after a failed call: no retry, and no compensating
\* call when the mutation fails after the variant query succeeded.
C10_CallDiscipline ==
  /\ inflight = Len(fetches) - Len(replies)
  /\ inflight \in 0..1
  /\ Len(gqlCalls) >= Len(fetches)
  /\ endpoint = "stock" => IsPrefix(gqlCalls, <<"getStock">>)
  /\ endpoint = "create-order" => IsPrefix(gqlCalls, <<"getVariant", "createOrder">>)
  /\ endpoint = "none" => gqlCalls = <<>>
  /\ \A i \in DOMAIN replies :
       UpstreamFailed(replies[i]) =>
         /\ Len(fetches) = i
         /\ Len(gqlCalls) = i
         /\ pc = "done"

C10_Witness ==
  /\ endpoint = "create-order"
  /\ Len(replies) = 2
  /\ UpstreamSucceeded(replies[1])
  /\ UpstreamFailed(replies[2])
  /\ FetchOps = <<"getVariant", "createOrder">>
  /\ pc = "done"
  /\ responses = <<InternalError>>

====
